---- MODULE Spec2Model ----
(***************************************************************************)
(* Model of reproduction/sample.py: the class Calculator with its three    *)
(* methods, the module-level statements that construct one instance and    *)
(* make five calls on it, and a caller outside the module that invokes the *)
(* methods of the instance once the module body has finished.              *)
(*                                                                         *)
(* An instance is modelled by its attribute dictionary, a set of           *)
(* <<name, value>> pairs.  A method is an operator from the instance and   *)
(* the arguments to the returned value and the instance after the call, so *)
(* that statelessness is a property of the model and not an assumption.    *)
(***************************************************************************)
EXTENDS Integers, Sequences, FiniteSets, TLC

VARIABLES pc, klass, calc, results, history

vars == <<pc, klass, calc, results, history>>

\* Bounds of the exploration.
MaxArg == 2
MaxCalls == 2

Args == (0 - MaxArg)..MaxArg

\* ------------------------------------------------------------------------
\* class Calculator

\* The values the program computes: Python objects of type int and of type
\* str, told apart by their type.
PyInt(n) == [type |-> "int", int |-> n, str |-> ""]

PyStr(s) == [type |-> "str", int |-> 0, str |-> s]

Methods == {"unused_method", "add", "multiply"}

\* unused_method that leaves a mark on the instance.
unused_method_marking(self) ==
    [ret |-> PyStr("never called"), self |-> self \cup {<<"called", 1>>}]

unused_method(self) == [ret |-> PyStr("never called"), self |-> self]

\* add with its first operand used twice.
add_first_twice(self, a, b) == [ret |-> PyInt(a + a), self |-> self]

\* add that subtracts.
add_minus(self, a, b) == [ret |-> PyInt(a - b), self |-> self]

\* add that accumulates a call count on the instance and folds it in.
add_counting(self, a, b) ==
    [ret |-> PyInt(a + b + Cardinality(self)),
     self |-> self \cup {<<"n", Cardinality(self)>>}]

add(self, a, b) == [ret |-> PyInt(a + b), self |-> self]

\* multiply with the body of add.
multiply_plus(self, a, b) == [ret |-> PyInt(a + b), self |-> self]

\* multiply with its first operand used twice.
multiply_first_twice(self, a, b) == [ret |-> PyInt(a * a), self |-> self]

multiply(self, a, b) == [ret |-> PyInt(a * b), self |-> self]

\* Calculator(): the class defines no __init__, the new instance has no
\* attributes.
Calculator == [exists |-> TRUE, dict |-> {}]

\* calc.<op>(*args): attribute lookup on the instance, then the call.
Invoke(op, self, args) ==
    CASE op = "add" -> add(self, args[1], args[2])
      [] op = "multiply" -> multiply(self, args[1], args[2])
      [] op = "unused_method" -> unused_method(self)

\* name = value in the module namespace.
Bind(ns, name, v) ==
    [n \in (DOMAIN ns) \cup {name} |-> IF n = name THEN v ELSE ns[n]]

Record(site, target, op, args, ret) ==
    [site |-> site, target |-> target, op |-> op, args |-> args, ret |-> ret]

\* ------------------------------------------------------------------------
\* The module body, one action per statement.

Init ==
    /\ pc = "class"
    /\ klass = {}
    /\ calc = [exists |-> FALSE, dict |-> {}]
    /\ results = [n \in {} |-> PyInt(0)]
    /\ history = << >>

ClassDef ==
    /\ pc = "class"
    /\ klass' = Methods
    /\ pc' = "calc"
    /\ UNCHANGED <<calc, results, history>>

Construct ==
    /\ pc = "calc"
    /\ klass # {}
    /\ calc' = Calculator
    /\ pc' = "result1"
    /\ UNCHANGED <<klass, results, history>>

\* target = calc.op(*args), then on to the statement next.
CallStmt(label, target, op, args, next) ==
    /\ pc = label
    /\ calc.exists
    /\ op \in klass
    /\ LET r == Invoke(op, calc.dict, args) IN
         /\ calc' = [calc EXCEPT !.dict = r.self]
         /\ results' = Bind(results, target, r.ret)
         /\ history' = Append(history, Record(label, target, op, args, r.ret))
    /\ pc' = next
    /\ UNCHANGED klass

Result1 == CallStmt("result1", "result1", "add", <<1, 2>>, "result2")

\* Line 20 with a mistyped literal.
Result2_typo == CallStmt("result2", "result2", "add", <<3, 3>>, "result3")

Result2 == CallStmt("result2", "result2", "add", <<3, 4>>, "result3")

\* Line 23 calling add.
Result3_add == CallStmt("result3", "result3", "add", <<2, 3>>, "result4")

Result3 == CallStmt("result3", "result3", "multiply", <<2, 3>>, "result4")

\* Line 24 assigning to result3 again.
Result4_rebind == CallStmt("result4", "result3", "multiply", <<4, 5>>, "result5")

\* Line 24 and line 25 exchanged: line 25 runs first and ends the script.
Result4_skipped == CallStmt("result4", "result5", "multiply", <<6, 7>>, "done")

Result4 == CallStmt("result4", "result4", "multiply", <<4, 5>>, "result5")

Result5 == CallStmt("result5", "result5", "multiply", <<6, 7>>, "done")

Script ==
    \/ ClassDef
    \/ Construct
    \/ Result1
    \/ Result2
    \/ Result3
    \/ Result4
    \/ Result5

\* ------------------------------------------------------------------------
\* A caller outside the module: it holds the instance after the module body
\* has run and calls its methods; what it does with the returned value is
\* its own business and no part of the module's state.

NExternal == Cardinality({i \in 1..Len(history) : history[i].site = "external"})

External(op, args) ==
    /\ pc = "done"
    /\ calc.exists
    /\ op \in klass
    /\ NExternal < MaxCalls
    /\ LET r == Invoke(op, calc.dict, args) IN
         /\ calc' = [calc EXCEPT !.dict = r.self]
         /\ history' = Append(history, Record("external", "", op, args, r.ret))
    /\ UNCHANGED <<pc, klass, results>>

ExternalAdd == \E a \in Args, b \in Args : External("add", <<a, b>>)

ExternalMultiply == \E a \in Args, b \in Args : External("multiply", <<a, b>>)

ExternalUnused == External("unused_method", << >>)

Next ==
    \/ ClassDef
    \/ Construct
    \/ Result1
    \/ Result2
    \/ Result3
    \/ Result4
    \/ Result5
    \/ ExternalAdd
    \/ ExternalMultiply
    \/ ExternalUnused

Spec == Init /\ [][Next]_vars

\* The interpreter runs the module body statement after statement without
\* suspension: a statement that can run does run.
FairSpec == Spec /\ WF_vars(Script)

\* ------------------------------------------------------------------------
\* Properties

Sites == {"result1", "result2", "result3", "result4", "result5"}

Entries == 1..Len(history)

ScriptEntries == {i \in Entries : history[i].site \in Sites}

ExternalEntries == {i \in Entries : history[i].site = "external"}

Invocations(op) == Cardinality({i \in ScriptEntries : history[i].op = op})

Arith == {"add", "multiply"}

\* C1: when the script has run to completion, the five result slots hold
\* result1 = 3, result2 = 7, result3 = 6, result4 = 20 and result5 = 42, and
\* nothing else.
C1_FinalResults ==
    pc = "done" =>
        results = [n \in Sites |->
                      CASE n = "result1" -> PyInt(3)
                        [] n = "result2" -> PyInt(7)
                        [] n = "result3" -> PyInt(6)
                        [] n = "result4" -> PyInt(20)
                        [] n = "result5" -> PyInt(42)]

C1_Witness == pc = "done" /\ DOMAIN results = Sites /\ history[1].ret = PyInt(3)

\* C2: the script invokes add at most 2 times, multiply at most 3 times and
\* unused_method never, in every state of its execution, and exactly 2, 3
\* and 0 times once it has finished.
C2_ReferenceCounts ==
    /\ Invocations("add") <= 2
    /\ Invocations("multiply") <= 3
    /\ Invocations("unused_method") = 0
    /\ pc = "done" =>
         /\ Invocations("add") = 2
         /\ Invocations("multiply") = 3

C2_Witness ==
    /\ pc = "done"
    /\ Cardinality(ScriptEntries) = 5
    /\ \E i \in ExternalEntries : history[i].op = "unused_method"

\* C3: every call add(a, b), with a and b any integers of the range, zero
\* and negative ones included, returns the sum a + b.
C3_AddIsSum ==
    \A i \in Entries :
        history[i].op = "add" =>
            history[i].ret = PyInt(history[i].args[1] + history[i].args[2])

C3_Witness ==
    /\ \E i \in ExternalEntries :
         history[i].op = "add" /\ history[i].args[1] < 0 /\ history[i].args[2] = 0
    /\ \E i \in ExternalEntries :
         history[i].op = "add" /\ history[i].args[1] > 0 /\ history[i].args[2] < 0

\* C4: every call multiply(a, b), with a and b any integers of the range,
\* zero and negative ones included, returns the product a * b.
C4_MultiplyIsProduct ==
    \A i \in Entries :
        history[i].op = "multiply" =>
            history[i].ret = PyInt(history[i].args[1] * history[i].args[2])

C4_Witness ==
    /\ \E i \in ExternalEntries :
         history[i].op = "multiply" /\ history[i].args[1] < 0 /\ history[i].args[2] < 0
    /\ \E i \in ExternalEntries :
         history[i].op = "multiply" /\ history[i].args[1] = 0 /\ history[i].args[2] > 0

\* C5: a call of unused_method passes no argument, returns "never called"
\* whatever calls came before it, and changes neither a result slot nor the
\* instance nor any other state of the program; it only adds itself to the
\* record of the calls made.
IsUnusedCall ==
    /\ Len(history') = Len(history) + 1
    /\ history'[Len(history')].op = "unused_method"

C5_UnusedMethod ==
    [][IsUnusedCall =>
          /\ history'[Len(history')].args = << >>
          /\ history'[Len(history')].ret = PyStr("never called")
          /\ SubSeq(history', 1, Len(history)) = history
          /\ UNCHANGED <<pc, klass, calc, results>>]_vars

C5_Witness ==
    /\ Cardinality({i \in ExternalEntries : history[i].op = "unused_method"}) >= 2
    /\ DOMAIN results = Sites

\* C6: two calls of add, or two calls of multiply, with the same arguments
\* return the same value, whichever calls were made between them.
C6_Deterministic ==
    \A i \in Entries, j \in Entries :
        (/\ history[i].op \in Arith
         /\ history[i].op = history[j].op
         /\ history[i].args = history[j].args)
            => history[i].ret = history[j].ret

C6_Witness ==
    \E i \in Entries, j \in Entries :
        /\ j > i + 2
        /\ history[i].op \in Arith
        /\ history[i].op = history[j].op
        /\ history[i].args = history[j].args
        /\ \E k \in (i + 1)..(j - 1) : history[k].op # history[i].op

\* C7: the script terminates, and the calls it has made so far are always
\* an initial part of add(1,2), add(3,4), multiply(2,3), multiply(4,5),
\* multiply(6,7), made on a constructed instance, each bound to its slot
\* before the next starts, and all five are made when it has terminated.
ProgramOrder ==
    << <<"result1", "add", <<1, 2>>>>,
       <<"result2", "add", <<3, 4>>>>,
       <<"result3", "multiply", <<2, 3>>>>,
       <<"result4", "multiply", <<4, 5>>>>,
       <<"result5", "multiply", <<6, 7>>>> >>

Completed ==
    CASE pc \in {"class", "calc", "result1"} -> 0
      [] pc = "result2" -> 1
      [] pc = "result3" -> 2
      [] pc = "result4" -> 3
      [] pc = "result5" -> 4
      [] pc = "done" -> 5

InOrder ==
    /\ Cardinality(ScriptEntries) = Completed
    /\ ScriptEntries = 1..Completed
    /\ \A i \in ScriptEntries :
         /\ <<history[i].site, history[i].op, history[i].args>> = ProgramOrder[i]
         /\ history[i].target \in DOMAIN results
    /\ Completed > 0 => calc.exists
    /\ DOMAIN results = {ProgramOrder[i][1] : i \in 1..Completed}

C7_TerminatesInOrder == <>(pc = "done") /\ []InOrder

C7_Witness == pc = "done" /\ Len(history) >= 5 /\ calc.exists

Swapped(i, j) ==
    /\ history[i].op = history[j].op
    /\ history[j].args = <<history[i].args[2], history[i].args[1]>>

\* C8: add is commutative: a call add(a, b) and a call add(b, a) return the
\* same value, for all integers a and b of the range.
C8_AddCommutes ==
    \A i \in Entries, j \in Entries :
        (history[i].op = "add" /\ Swapped(i, j))
            => history[i].ret = history[j].ret

C8_Witness ==
    \E i \in Entries, j \in Entries :
        /\ history[i].op = "add"
        /\ Swapped(i, j)
        /\ history[i].args[1] < 0
        /\ history[i].args[2] > 0

\* C9: multiply is commutative: a call multiply(a, b) and a call
\* multiply(b, a) return the same value, for all integers a and b of the
\* range.
C9_MultiplyCommutes ==
    \A i \in Entries, j \in Entries :
        (history[i].op = "multiply" /\ Swapped(i, j))
            => history[i].ret = history[j].ret

C9_Witness ==
    \E i \in Entries, j \in Entries :
        /\ history[i].op = "multiply"
        /\ Swapped(i, j)
        /\ history[i].args[1] < 0
        /\ history[i].args[2] > 0

\* C10: each result slot is written by exactly one call, result1 and
\* result2 by add and result3, result4 and result5 by multiply, and a slot
\* that is bound keeps its value in every later step.
WrittenOnce ==
    \A s \in Sites :
        LET w == {i \in Entries : history[i].target = s} IN
          /\ Cardinality(w) = IF s \in DOMAIN results THEN 1 ELSE 0
          /\ \A i \in w :
               /\ history[i].op = IF s \in {"result1", "result2"}
                                  THEN "add" ELSE "multiply"
               /\ results[s] = history[i].ret

C10_SlotsWrittenOnce ==
    /\ []WrittenOnce
    /\ [][\A s \in DOMAIN results :
             s \in DOMAIN results' /\ results'[s] = results[s]]_vars
    /\ [](pc = "done" => DOMAIN results = Sites)

C10_Witness ==
    /\ pc = "done"
    /\ DOMAIN results = Sites
    /\ \E i \in ExternalEntries : history[i].op \in Arith

====
